---- MODULE Spec2Model ----
(***************************************************************************)
(* Model of go-mysqldump (src/dump.go, version 0.5.0): Data.Dump, the      *)
(* table template, table.Next / table.Init and the row-producer goroutine  *)
(* of table.Stream.                                                        *)
(*                                                                         *)
(* The database and the sink are the environment: every query, scan and    *)
(* write draws its outcome from a small set.  A byte string is modelled by *)
(* its length; a row tuple by its position in the cursor and its encoded   *)
(* length.  The sink is the sequence of template segments written so far;  *)
(* a segment is a run of consecutive template nodes, and a failing write   *)
(* is taken to write nothing of its segment.                               *)
(***************************************************************************)
EXTENDS Integers, Sequences, FiniteSets, TLC

VARIABLES
  MaxAllowedPacket,  \* Data.MaxAllowedPacket
  configured,        \* Data.MaxAllowedPacket as the caller set it, before Dump
  server,            \* what the server answers to SELECT version()
  LockTables,        \* Data.LockTables
  IgnoreTables,      \* Data.IgnoreTables
  pc,                \* position of Data.Dump
  tx,                \* Data.tx: "nil", "open", "done"
  log,               \* statements issued to the database, in order
  sink,              \* segments written to Data.Out, in order
  shown,             \* the rows SHOW TABLES returned, while getTables' result is taken
  tables,            \* Dump's local: the surviving table names
  idx,               \* index of the table the loop of Dump is at
  locked,            \* the deferred UNLOCK TABLES is registered
  result,            \* what Dump returned: "none" while it runs
  table,             \* the table object of the current dumpTable call
  tmpl,              \* position of tableTmpl's execution
  g,                 \* the goroutine of table.Stream
  valueOut,          \* the channel of table.Stream
  nread,             \* rows scanned so far in this dump
  failures,          \* the failures of this run, in the order they happened
  meta,              \* Dump's local metaData: DumpVersion, ServerVersion
  Out,               \* Data.Out: "nil", "writer" (no Close method) or "closer"
  Connection,        \* Data.Connection: "nil" or "db"
  closes,            \* the Close calls made on Out and Connection, in order
  call,              \* the function called directly: sanitize, RowBuffer, Close
  cpc,               \* position of that call: "idle", "ready", "returned"
  arg,               \* its argument (sanitize: the input; RowBuffer: table.values)
  ret                \* what it returned

vars == <<MaxAllowedPacket, configured, server, LockTables, IgnoreTables, pc, tx, log, sink, shown,
          tables, idx, locked, result, table, tmpl, g, valueOut, nread, failures, meta,
          Out, Connection, closes, call, cpc, arg, ret>>

(***************************************************************************)
(* Bounds and input sets.                                                  *)
(***************************************************************************)
MaxRows == 3
MaxTables == 2
NumColumns == 3

Names == {"a", "b"}
NullName == "NULL"
RowLens == {3, 5, 40}
Budgets == {-1, 0, 32}
IgnoreSets == {{}, {"b"}}

defaultMaxAllowedPacket == 4194304
Version == "0.5.0"

\* what SELECT version() can return: a version string or NULL
ServerVersions == {"test_version", NullName}
chanCap == 1

NoRow == [id |-> 0, len |-> 0]

\* The results SHOW TABLES can give: at most MaxTables rows, a table name at
\* most once, NULL rows anywhere.
RECURSIVE SeqsUpTo(_, _)
SeqsUpTo(S, n) ==
  IF n = 0 THEN {<<>>}
  ELSE LET shorter == SeqsUpTo(S, n - 1)
       IN shorter \cup {Append(s, x) : s \in {t \in shorter : Len(t) = n - 1}, x \in S}

ShowTablesResults ==
  {s \in SeqsUpTo(Names \cup {NullName}, MaxTables) :
     \A i, j \in 1..Len(s) : (i # j /\ s[i] = s[j]) => s[i] = NullName}

(***************************************************************************)
(* Helpers of the program.                                                 *)
(***************************************************************************)
\* a variant of isIgnoredTable that ignores no table
isIgnoredTableNever(ignore, name) == FALSE

\* Data.isIgnoredTable
isIgnoredTable(ignore, name) == name \in ignore

\* a variant of the filter that keeps the NULL names
getTablesFilterKeepInvalid(res, ignore) ==
  SelectSeq(res, LAMBDA n : ~isIgnoredTable(ignore, n))

\* the filter of Data.getTables: valid and not ignored, in order
RECURSIVE getTablesFilter(_, _)
getTablesFilter(res, ignore) ==
  IF res = <<>> THEN <<>>
  ELSE LET name == Head(res)
           rest == getTablesFilter(Tail(res), ignore)
       IN IF name # NullName /\ ~isIgnoredTable(ignore, name)
          THEN <<name>> \o rest ELSE rest

\* table.NameEsc: "`" + name + "`"
NameEscLen(name) == Len(name) + 2

\* "INSERT INTO %s VALUES "
PrefixLen(name) == 12 + NameEscLen(name) + 8

\* a variant that queries the connection pool, outside the transaction
ReadViaConnection == "conn"

\* the handle the read queries of the dump are issued on
ReadVia == "tx"

\* the handle LOCK TABLES / UNLOCK TABLES are executed on
LockVia == "conn"

\* one statement issued to the database: tbl is the table a per-table statement
\* names, tbls the list the combined LOCK TABLES names
EvL(op, via, tbl, tbls, ok) ==
  [op |-> op, via |-> via, tbl |-> tbl, tbls |-> tbls, ok |-> ok, ret |-> ""]

Ev(op, via, tbl, ok) == EvL(op, via, tbl, <<>>, ok)

\* the text table.Stream starts a statement with: INSERT INTO <name> VALUES,
\* columns being the column list written between the name and VALUES
InsertPrefix(name) == [into |-> name, columns |-> <<>>]

Seg(sec, part, rows, len) ==
  [sec |-> sec, part |-> part, rows |-> rows, len |-> len,
   prefix |-> IF part = "insert" THEN InsertPrefix(sec) ELSE InsertPrefix(""),
   meta |-> [DumpVersion |-> "", ServerVersion |-> ""]]

\* a variant of the teardown without the deferred rollback
TeardownNoRollback(l, lk, uok) ==
  IF lk THEN Append(l, Ev("UNLOCK TABLES", LockVia, "", uok)) ELSE l

\* a variant of the teardown without the deferred UNLOCK TABLES
TeardownNoUnlock(l, lk, uok) == Append(l, Ev("Rollback", ReadVia, "", TRUE))

\* The deferred calls of Dump, run when it returns after a successful begin:
\* UNLOCK TABLES when registered (uok: whether it succeeds), then
\* Data.rollback.
Teardown(l, lk, uok) ==
  (IF lk THEN Append(l, Ev("UNLOCK TABLES", LockVia, "", uok)) ELSE l)
    \o <<Ev("Rollback", ReadVia, "", TRUE)>>

\* a variant that keeps a row longer than the budget in the open statement
NeedFlushUnlessOversized(ilen, blen, budget) ==
  ilen # 0 /\ ilen + blen > budget - 1 /\ blen <= budget

\* a variant that closes the statement one byte early
NeedFlushEarly(ilen, blen, budget) == ilen # 0 /\ ilen + blen >= budget - 1

\* the condition of table.Stream to close the statement before the row
NeedFlush(ilen, blen, budget) == ilen # 0 /\ ilen + blen > budget - 1

\* a variant that sends the buffer after the loop even when it is empty
FinalFlushAlways(ilen) == TRUE

\* the condition of table.Stream to send the last statement
FinalFlush(ilen) == ilen # 0

\* a variant of writeTable that drops table.Err
writeTableResultNil(tErr) == "nil"

\* what Data.writeTable returns after the template executed without error
writeTableResult(tErr) == tErr

\* Data.createTable: the table object with its name and nothing else.  types
\* and values are the lengths of table.types and table.values, cols the column
\* count of the cursor last opened; opened and closed count the cursors.
NewTable(name) == [Name |-> name, Err |-> "nil", rows |-> "nil", types |-> 0,
                   values |-> 0, cols |-> 0,
                   fetched |-> <<>>, end |-> "", opened |-> 0, closed |-> 0,
                   ddl |-> ""]
NoTable == NewTable("")
IdleG == [pc |-> "idle", insert |-> <<>>, ilen |-> 0, b |-> NoRow]
NewChan == [buf |-> <<>>, closed |-> FALSE]

(***************************************************************************)
(* Init: a Data value as Register or a caller builds it, Dump not started. *)
(***************************************************************************)
\* no direct call of a function of the package is under way
NoCall == call = "none" /\ cpc = "idle" /\ arg = <<>> /\ ret = <<>> /\ closes = <<>>

\* the locals of Dump and of the render before Dump is called
DumpNotStarted ==
  /\ pc = "start"
  /\ tx = "nil"
  /\ log = <<>>
  /\ sink = <<>>
  /\ shown = <<>>
  /\ tables = <<>>
  /\ idx = 0
  /\ locked = FALSE
  /\ result = "none"
  /\ table = NoTable
  /\ tmpl = "none"
  /\ g = IdleG
  /\ valueOut = NewChan
  /\ nread = 0
  /\ failures = <<>>
  /\ meta = [DumpVersion |-> Version, ServerVersion |-> ""]

\* The runs checked: the configuration of the Data value and the version of
\* the server.  Every budget, lock flag, ignore set and version is there, and
\* every combination of lock flag and ignore set under the budget that makes
\* the batcher cut statements; the other budgets and the NULL version come
\* with fewer combinations.
Scenarios ==
  {sc \in [budget : Budgets, lock : BOOLEAN, ignore : IgnoreSets, version : ServerVersions] :
     /\ sc.version = NullName => (sc.budget = 32 /\ ~sc.lock /\ sc.ignore = {})
     /\ sc.budget = -1 => (~sc.lock /\ sc.ignore = {})
     /\ sc.budget = 0 => (sc.lock <=> sc.ignore # {})}

Init ==
  /\ \E sc \in Scenarios :
       /\ MaxAllowedPacket = sc.budget
       /\ LockTables = sc.lock
       /\ IgnoreTables = sc.ignore
       /\ server = sc.version
  /\ configured = MaxAllowedPacket
  /\ Out = "writer"
  /\ Connection = "db"
  /\ NoCall
  /\ DumpNotStarted

callVars == <<Out, Connection, closes, call, cpc, arg, ret>>
cfgVars == <<configured, server, LockTables, IgnoreTables, callVars>>
renderVars == <<table, tmpl, g, valueOut, nread>>

\* a variant of the write that keeps the last segment only
WriteOverwriting(out, seg) == <<seg>>

\* a successful write of a template to Data.Out: the bytes are appended
Write(out, seg) == Append(out, seg)

\* a variant that returns nil where a template's write error is returned
sinkErrorDropped == "nil"

\* the error Dump returns when a template's Execute fails on a write
sinkError == "errSink"

\* Dump returns err after begin succeeded: the deferred calls run, and the
\* result of the deferred UNLOCK TABLES goes nowhere.  f is the failures so far.
Return(err, l, lk, f) ==
  /\ pc' = "done"
  /\ result' = err
  /\ tx' = "done"
  /\ \E uok \in (IF lk THEN BOOLEAN ELSE {TRUE}) :
       /\ log' = Teardown(l, lk, uok)
       /\ failures' = IF uok THEN f ELSE Append(f, "errUnlock")

(***************************************************************************)
(* Data.Dump, up to the loop over the tables.                              *)
(***************************************************************************)
\* a variant of Dump's first statement that leaves an unset budget at 0
EffectiveBudgetNoDefault(m) == m

\* the budget Dump stores in Data.MaxAllowedPacket before anything else
EffectiveBudget(m) == IF m = 0 THEN defaultMaxAllowedPacket ELSE m

\* default budget, getTemplates, begin
DumpBegin ==
  /\ pc = "start"
  /\ MaxAllowedPacket' = EffectiveBudget(MaxAllowedPacket)
  /\ \E ok \in BOOLEAN :
       /\ log' = Append(log, Ev("BeginTx", "conn", "", ok))
       /\ IF ok
          THEN /\ tx' = "open"
               /\ pc' = "version"
               /\ result' = result
               /\ failures' = failures
          ELSE /\ tx' = "nil"
               /\ pc' = "done"
               /\ result' = "errBegin"
               /\ failures' = Append(failures, "errBegin")
  /\ UNCHANGED <<meta, cfgVars, sink, shown, tables, idx, locked, renderVars>>

\* a variant of the scan that leaves the version out
NullStringEmpty(v) == ""

\* the String of the sql.NullString a value is scanned into: "" for NULL
NullString(v) == IF v = NullName THEN "" ELSE v

\* metaData.updateServerVersion
DumpVersion ==
  /\ pc = "version"
  /\ \E ok \in BOOLEAN :
       LET e == Ev("SELECT version()", ReadVia, "", ok)
           l == Append(log, e)
       IN IF ok
          THEN /\ meta' = [meta EXCEPT !.ServerVersion = NullString(server)]
               /\ log' = Append(log, [e EXCEPT !.ret = server])
               /\ pc' = "header"
               /\ UNCHANGED <<tx, result, failures>>
          ELSE /\ Return("errVersion", l, locked, Append(failures, "errVersion"))
               /\ meta' = [meta EXCEPT !.ServerVersion = ""]
  /\ UNCHANGED <<MaxAllowedPacket, cfgVars, sink, shown, tables, idx, locked, renderVars>>

\* the text of headerTmpl executed on m
Header(m) == [Seg("header", "header", <<>>, 0) EXCEPT !.meta = m]

\* headerTmpl.Execute
DumpHeader ==
  /\ pc = "header"
  /\ \E ok \in BOOLEAN :
       IF ok
       THEN /\ sink' = Write(sink, Header(meta))
            /\ pc' = "tables"
            /\ UNCHANGED <<tx, result, log, failures>>
       ELSE /\ Return(sinkError, log, locked, Append(failures, "errSink"))
            /\ sink' = sink
  /\ UNCHANGED <<MaxAllowedPacket, meta, cfgVars, shown, tables, idx, locked, renderVars>>

\* the table names among the rows SHOW TABLES returned
NamesIn(res) == {res[k] : k \in 1..Len(res)} \ {NullName}

\* Data.getTables
DumpGetTables ==
  /\ pc = "tables"
  /\ \E ok \in BOOLEAN :
       LET l == Append(log, Ev("SHOW TABLES", ReadVia, "", ok))
       IN IF ok
          THEN \E res \in ShowTablesResults :
                 /\ shown' = res
                 /\ tables' = getTablesFilter(res, IgnoreTables)
                 /\ pc' = "lock"
                 /\ log' = Append(log, [Ev("SHOW TABLES", ReadVia, "", ok)
                                          EXCEPT !.ret = NamesIn(res)])
                 /\ UNCHANGED <<tx, result, failures>>
          ELSE /\ Return("errShowTables", l, locked, Append(failures, "errShowTables"))
               /\ UNCHANGED <<shown, tables>>
  /\ UNCHANGED <<MaxAllowedPacket, meta, cfgVars, sink, idx, locked, renderVars>>

\* a variant that locks whenever LockTables is set
ShouldLockWheneverSet(lt, tbls) == lt

\* the condition under which Dump issues the combined LOCK TABLES
ShouldLock(lt, tbls) == lt /\ Len(tbls) > 0

\* a variant of the lock list that leaves out the first table
LockListTail(tbls) ==
  [i \in 1..(Len(tbls) - 1) |-> [name |-> tbls[i + 1], mode |-> "READ"]]

\* the tables the combined LOCK TABLES statement names, each with its mode
LockList(tbls) == [i \in 1..Len(tbls) |-> [name |-> tbls[i], mode |-> "READ"]]

\* the LOCK TABLES block of Dump
DumpLock ==
  /\ pc = "lock"
  /\ IF ShouldLock(LockTables, tables)
     THEN \E ok \in BOOLEAN :
            LET l == Append(log, EvL("LOCK TABLES", LockVia, "", LockList(tables), ok))
            IN IF ok
               THEN /\ locked' = TRUE
                    /\ pc' = "loop"
                    /\ log' = l
                    /\ UNCHANGED <<tx, result, failures>>
               ELSE /\ Return("errLock", l, locked, Append(failures, "errLock"))
                    /\ locked' = locked
     ELSE /\ pc' = "loop"
          /\ UNCHANGED <<locked, log, tx, result, failures>>
  /\ idx' = 1
  /\ shown' = <<>>
  /\ UNCHANGED <<MaxAllowedPacket, meta, cfgVars, sink, tables, renderVars>>

(***************************************************************************)
(* The loop of Dump: dumpTable / writeTable start tableTmpl, whose         *)
(* execution writes as it goes and calls CreateSQL and Stream on the way.  *)
(***************************************************************************)
\* a variant of the loop's end test that leaves the loop one table early
LoopDoneEarly(i, n) == i >= n

\* the range over tables in Dump is exhausted: i is the next index, n the count
LoopDone(i, n) == i > n

\* Data.err: no statement of the program assigns it
dataErr == "nil"

\* dumpTable(name), createTable, writeTable up to the call of CreateSQL: the
\* comment lines and DROP TABLE IF EXISTS are written
DumpTable ==
  /\ pc = "loop"
  /\ ~LoopDone(idx, Len(tables))
  /\ dataErr = "nil"
  /\ \E ok \in BOOLEAN :
       IF ok
       THEN /\ table' = NewTable(tables[idx])
            /\ sink' = Write(sink, Seg(tables[idx], "pre", <<>>, 0))
            /\ pc' = "render"
            /\ tmpl' = "ddl"
            /\ UNCHANGED <<tx, result, log, failures>>
       ELSE /\ Return(sinkError, log, locked, Append(failures, "errSink"))
            /\ table' = NewTable(tables[idx])
            /\ UNCHANGED <<sink, tmpl>>
  /\ UNCHANGED <<MaxAllowedPacket, meta, cfgVars, shown, tables, idx, locked, g, valueOut, nread>>

\* {{ .CreateSQL }}: SHOW CREATE TABLE, the name check, the DDL written
TmplCreateSQL ==
  /\ pc = "render"
  /\ tmpl = "ddl"
  /\ \E out \in {"ok", "err", "mismatch"} :
       /\ table' = [table EXCEPT !.ddl = out]
       /\ LET l == Append(log, Ev("SHOW CREATE TABLE", ReadVia, table.Name, out # "err"))
          IN CASE out = "err" -> /\ Return("errShowCreate", l, locked, Append(failures, "errShowCreate"))
                              /\ UNCHANGED <<sink, tmpl>>
            [] out = "mismatch" -> /\ Return("errMismatch", l, locked, Append(failures, "errMismatch"))
                                   /\ UNCHANGED <<sink, tmpl>>
            [] out = "ok" ->
                 \E ok \in BOOLEAN :
                   IF ok
                   THEN /\ sink' = Write(sink, Seg(table.Name, "ddl", <<>>, 0))
                        /\ tmpl' = "lock"
                        /\ log' = l
                        /\ UNCHANGED <<pc, tx, result, failures>>
                   ELSE /\ Return(sinkError, l, locked, Append(failures, "errSink"))
                        /\ UNCHANGED <<sink, tmpl>>
  /\ UNCHANGED <<MaxAllowedPacket, meta, cfgVars, shown, tables, idx, locked, g, valueOut, nread>>

\* the text up to DISABLE KEYS is written, then {{ range .Stream }} calls
\* table.Stream: the channel is made and the goroutine started
TmplLock ==
  /\ pc = "render"
  /\ tmpl = "lock"
  /\ \E ok \in BOOLEAN :
       IF ok
       THEN /\ sink' = Write(sink, Seg(table.Name, "lock", <<>>, 0))
            /\ tmpl' = "range"
            /\ g' = [IdleG EXCEPT !.pc = "next"]
            /\ valueOut' = NewChan
            /\ UNCHANGED <<pc, tx, result, log, failures>>
       ELSE /\ Return(sinkError, log, locked, Append(failures, "errSink"))
            /\ UNCHANGED <<sink, tmpl, g, valueOut>>
  /\ UNCHANGED <<MaxAllowedPacket, meta, cfgVars, shown, tables, idx, locked, table, nread>>

\* one iteration of the range: a statement is received and written
TmplRecv ==
  /\ pc = "render"
  /\ tmpl = "range"
  /\ valueOut.buf # <<>>
  /\ valueOut' = [valueOut EXCEPT !.buf = Tail(@)]
  /\ \E ok \in BOOLEAN :
       IF ok
       THEN /\ sink' = Write(sink, Head(valueOut.buf))
            /\ UNCHANGED <<pc, tx, result, log, failures>>
       ELSE /\ Return(sinkError, log, locked, Append(failures, "errSink"))
            /\ sink' = sink
  /\ UNCHANGED <<MaxAllowedPacket, meta, cfgVars, shown, tables, idx, locked, table, tmpl, g, nread>>

\* a variant of the range that ends as soon as the channel is empty
RangeDoneEarly(ch) == ch.buf = <<>>

\* the range ends when the channel is closed and drained
RangeDone(ch) == ch.buf = <<>> /\ ch.closed

\* a variant of the loop that goes back to the first table after the second
NextIdxRevisit(i) == IF i = 2 THEN 1 ELSE i + 1

\* the loop of Dump moves to the next table
NextIdx(i) == i + 1

\* the channel is closed and drained: ENABLE KEYS and UNLOCK TABLES are
\* written, writeTable returns table.Err and the loop of Dump goes on or ends
TmplEnd ==
  /\ pc = "render"
  /\ tmpl = "range"
  /\ RangeDone(valueOut)
  /\ tmpl' = "none"
  /\ \E ok \in BOOLEAN :
       IF ok
       THEN /\ sink' = Write(sink, Seg(table.Name, "post", <<>>, 0))
            /\ IF writeTableResult(table.Err) = "nil"
               THEN /\ pc' = "loop"
                    /\ idx' = NextIdx(idx)
                    /\ UNCHANGED <<tx, result, log, failures>>
               ELSE /\ Return(writeTableResult(table.Err), log, locked, failures)
                    /\ idx' = idx
       ELSE /\ Return(sinkError, log, locked, Append(failures, "errSink"))
            /\ UNCHANGED <<sink, idx>>
  /\ UNCHANGED <<MaxAllowedPacket, meta, cfgVars, shown, tables, locked, table, g, valueOut, nread>>

(***************************************************************************)
(* table.Init, table.Next and the goroutine of table.Stream.               *)
(***************************************************************************)
InitOutcomes == {"ok", "errSelect", "errColumns", "errNoColumns", "errColumnTypes"}

\* a variant of the first test of table.Init that lets it run again
InitTwiceNever(t) == FALSE

\* the first test of table.Init: the column plan is already there
InitTwice(t) == t.types # 0

\* the column count of the cursor the query of table.Init opens: none when
\* rows.Columns() gives an empty list
CursorColumns(io) == IF io = "errNoColumns" THEN 0 ELSE NumColumns

\* what table.Init returns with the outcome io of its query and metadata calls
initErr(t, io) ==
  IF InitTwice(t) THEN "errInitTwice" ELSE IF io = "ok" THEN "nil" ELSE io

\* table.Init with the outcome io of its query and metadata calls, and the
\* assignment of its error to table.Err by table.Next: the table after it.
\* The cursor is open from the moment the query succeeded.
tableInit(t, io) ==
  IF InitTwice(t) THEN [t EXCEPT !.Err = "errInitTwice", !.end = "init"]
  ELSE IF io = "errSelect" THEN [t EXCEPT !.Err = io, !.end = "init"]
  ELSE IF io = "ok"
       THEN [t EXCEPT !.rows = "open", !.opened = @ + 1, !.cols = CursorColumns(io),
                      !.types = CursorColumns(io), !.values = CursorColumns(io)]
       ELSE [t EXCEPT !.rows = "open", !.opened = @ + 1, !.cols = CursorColumns(io),
                      !.Err = io, !.end = "init"]

\* the statements table.Init issues
initLog(t, l, io) ==
  IF InitTwice(t) THEN l
  ELSE Append(l, Ev("SELECT *", ReadVia, t.Name, io # "errSelect"))

\* the fallthrough of table.Next on an open cursor: rows.Next gave nx, and
\* rows.Scan / rows.Err gave sc when nx is a row of encoded length blen
tableNextRow(t, nx, sc, blen) ==
  IF nx = "row"
  THEN IF sc = "ok"
       THEN [t EXCEPT !.fetched = Append(@, blen)]
       ELSE [t EXCEPT !.Err = "errScan", !.end = "scanerr"]
  ELSE [t EXCEPT !.rows = "nil", !.closed = @ + 1, !.end = nx]

\* a variant of the send that keeps the first row of the buffer only
StatementFirstRowOnly(name, insert, ilen) ==
  Seg(name, "insert", <<Head(insert)>>, ilen + 1)

\* the statement the goroutine sends: the buffer and the closing ";"
Statement(name, insert, ilen) == Seg(name, "insert", insert, ilen + 1)

\* the buffer length after the row is appended to it: the prefix when the
\* buffer is empty, a comma otherwise
AppendLen(name, ilen, blen) ==
  IF ilen = 0 THEN PrefixLen(name) + blen ELSE ilen + 1 + blen

\* the body of the loop of Stream after table.Next returned more, the row
\* being b; or the code after the loop
StreamStep(t, more, b) ==
  IF more
  THEN IF NeedFlush(g.ilen, b.len, MaxAllowedPacket)
       THEN /\ g' = [g EXCEPT !.pc = "send", !.b = b]
            /\ valueOut' = valueOut
       ELSE /\ g' = [g EXCEPT !.insert = Append(@, b),
                              !.ilen = AppendLen(t.Name, @, b.len)]
            /\ valueOut' = valueOut
  ELSE IF FinalFlush(g.ilen)
       THEN /\ g' = [g EXCEPT !.pc = "last"]
            /\ valueOut' = valueOut
       ELSE /\ g' = [g EXCEPT !.pc = "done"]
            /\ valueOut' = [valueOut EXCEPT !.closed = TRUE]

\* table.Next on an open cursor, then the loop body
GoRowsNext(t, l) ==
  /\ log' = l
  /\ \/ /\ nread < MaxRows
        /\ nread' = nread + 1
        /\ \E blen \in RowLens, sc \in {"ok", "err"} :
             LET t2 == tableNextRow(t, "row", sc, blen)
                 b == [id |-> Len(t.fetched) + 1, len |-> blen]
             IN /\ table' = t2
                /\ failures' = IF sc = "ok" THEN failures ELSE Append(failures, "errScan")
                /\ StreamStep(t2, sc = "ok", b)
     \/ /\ nread' = nread
        /\ \E nx \in {"eof", "readerr"} :
             LET t2 == tableNextRow(t, nx, "ok", 0)
             IN /\ table' = t2
                /\ failures' = IF nx = "eof" THEN failures ELSE Append(failures, "errRead")
                /\ StreamStep(t2, FALSE, NoRow)

\* for table.Next() { ... }: one call of table.Next and the loop body up to
\* the next call or the next send
GoNext ==
  /\ g.pc = "next"
  /\ IF table.rows = "nil"
     THEN \E io \in InitOutcomes :
            LET t1 == tableInit(table, io)
                l1 == initLog(table, log, io)
            IN IF t1.Err # "nil"
               THEN /\ table' = t1
                    /\ log' = l1
                    /\ nread' = nread
                    /\ failures' = Append(failures, t1.Err)
                    /\ StreamStep(t1, FALSE, NoRow)
               ELSE GoRowsNext(t1, l1)
     ELSE GoRowsNext(table, log)
  /\ UNCHANGED <<MaxAllowedPacket, meta, cfgVars, pc, tx, sink, shown, tables, idx, locked,
                 result, tmpl>>

\* valueOut <- insert.String() inside the loop, then the buffer is reset and
\* seeded with the prefix and the row
GoSend ==
  /\ g.pc = "send"
  /\ Len(valueOut.buf) < chanCap
  /\ valueOut' = [valueOut EXCEPT !.buf = Append(@, Statement(table.Name, g.insert, g.ilen))]
  /\ g' = [g EXCEPT !.pc = "next", !.insert = <<g.b>>,
                    !.ilen = AppendLen(table.Name, 0, g.b.len), !.b = NoRow]
  /\ UNCHANGED <<MaxAllowedPacket, meta, cfgVars, pc, tx, log, sink, shown, tables, idx, locked,
                 result, table, tmpl, nread, failures>>

\* valueOut <- insert.String() after the loop, then the deferred close
GoLast ==
  /\ g.pc = "last"
  /\ Len(valueOut.buf) < chanCap
  /\ valueOut' = [buf |-> Append(valueOut.buf, Statement(table.Name, g.insert, g.ilen)),
                  closed |-> TRUE]
  /\ g' = [g EXCEPT !.pc = "done"]
  /\ UNCHANGED <<MaxAllowedPacket, meta, cfgVars, pc, tx, log, sink, shown, tables, idx, locked,
                 result, table, tmpl, nread, failures>>

\* after the loop: data.err is nil, the footer is written and its result returned
DumpFooter ==
  /\ pc = "loop"
  /\ LoopDone(idx, Len(tables))
  /\ dataErr = "nil"
  /\ \E ok \in BOOLEAN :
       IF ok
       THEN /\ sink' = Write(sink, Seg("footer", "footer", <<>>, 0))
            /\ Return("nil", log, locked, failures)
       ELSE /\ Return(sinkError, log, locked, Append(failures, "errSink"))
            /\ sink' = sink
  /\ UNCHANGED <<MaxAllowedPacket, meta, cfgVars, shown, tables, idx, locked, renderVars>>

Next ==
  \/ DumpBegin
  \/ DumpVersion
  \/ DumpHeader
  \/ DumpGetTables
  \/ DumpLock
  \/ DumpTable
  \/ TmplCreateSQL
  \/ TmplLock
  \/ TmplRecv
  \/ TmplEnd
  \/ DumpFooter
  \/ GoNext
  \/ GoSend
  \/ GoLast

Spec == Init /\ [][Next]_vars

(***************************************************************************)
(* The functions of the package called directly, as its tests call them:   *)
(* sanitize, table.RowBuffer, Data.Close.  A string is the sequence of its *)
(* bytes; the bytes the replacer knows have names.                         *)
(***************************************************************************)
MaxLen == 3

NUL == "NUL"
BS == "BS"
LF == "LF"
CR == "CR"
SUB == "SUB"
BSL == "\\"
SQ == "'"
DQ == "\""
PCT == "%"

\* the bytes the strings of the model are made of
Bytes == {"O", SQ, BSL, PCT, NUL}
OBrien == <<"O", SQ, "B", "r", "i", "e", "n", BSL>>
SanitizeInputs == SeqsUpTo(Bytes, MaxLen) \cup {OBrien, <<DQ, BS, LF>>, <<CR, SUB>>}

\* the pairs of mysqlReplacer, in the order they are given to NewReplacer
mysqlReplacerPairs ==
  << <<NUL, <<BSL, "0">> >>, <<SQ, <<BSL, SQ>> >>, <<DQ, <<BSL, DQ>> >>,
     <<BS, <<BSL, "b">> >>, <<LF, <<BSL, "n">> >>, <<CR, <<BSL, "r">> >>,
     <<SUB, <<BSL, "Z">> >>, <<BSL, <<BSL, BSL>> >>, <<PCT, <<BSL, PCT>> >> >>

\* what the replacer writes for one byte: its pair's new string, or the byte
ReplaceByte(c) ==
  IF \E k \in 1..Len(mysqlReplacerPairs) : mysqlReplacerPairs[k][1] = c
  THEN mysqlReplacerPairs[CHOOSE k \in 1..Len(mysqlReplacerPairs) :
                             mysqlReplacerPairs[k][1] = c][2]
  ELSE <<c>>

\* one pair applied to a whole string
RECURSIVE ReplaceAll(_, _, _)
ReplaceAll(s, old, new) ==
  IF s = <<>> THEN <<>>
  ELSE (IF Head(s) = old THEN new ELSE <<Head(s)>>) \o ReplaceAll(Tail(s), old, new)

\* a variant of sanitize that applies the pairs one after the other, each to
\* the whole string the one before produced
RECURSIVE ReplaceInTurn(_, _)
ReplaceInTurn(s, k) ==
  IF k > Len(mysqlReplacerPairs) THEN s
  ELSE ReplaceInTurn(ReplaceAll(s, mysqlReplacerPairs[k][1], mysqlReplacerPairs[k][2]), k + 1)
sanitizeInTurn(input) == ReplaceInTurn(input, 1)

\* sanitize: mysqlReplacer().Replace(input), one pass over the bytes of input
RECURSIVE sanitize(_)
sanitize(input) ==
  IF input = <<>> THEN <<>> ELSE ReplaceByte(Head(input)) \o sanitize(Tail(input))

dumpVars == <<MaxAllowedPacket, configured, server, LockTables, IgnoreTables, pc, tx, log, sink,
              shown, tables, idx, locked, result, table, tmpl, g, valueOut, nread,
              failures, meta>>

\* sanitize(arg) is called and returns
SanitizeCall ==
  /\ call = "sanitize"
  /\ cpc = "ready"
  /\ ret' = sanitize(arg)
  /\ cpc' = "returned"
  /\ UNCHANGED <<dumpVars, Out, Connection, closes, call, arg>>

MaxCols == 2

\* the Go type table.Init gives a column: RawBytes for a BLOB, NullInt64 for
\* a signed integer scan type, NullString for everything else
IntKinds == {"Int", "Int8", "Int16", "Int32", "Int64"}
ScanTypeOf(dbTypeName, kind) ==
  IF dbTypeName = "BLOB" THEN "RawBytes"
  ELSE IF kind # "nil" /\ kind \in IntKinds THEN "NullInt64"
  ELSE "NullString"

\* the columns of the tables of the model: DatabaseTypeName and scan kind
ColumnDefs == {[db |-> "BLOB", kind |-> "Slice"], [db |-> "INT", kind |-> "Int64"],
               [db |-> "VARCHAR", kind |-> "String"], [db |-> "TEXT", kind |-> "Slice"]}

Texts == {<<>>, <<"T">>, <<SQ>>}
Ints == {-12, 0, 305}
TestName1 == <<"T", "e", "s", "t", " ", "N", "a", "m", "e", " ", "1">>

NullStringValue(valid, str) ==
  [type |-> "NullString", Valid |-> valid, String |-> str, Int64 |-> 0]
NullInt64Value(valid, n) ==
  [type |-> "NullInt64", Valid |-> valid, String |-> <<>>, Int64 |-> n]
RawBytesValue(bytes) ==
  [type |-> "RawBytes", Valid |-> TRUE, String |-> bytes, Int64 |-> 0]

\* what a successful Scan can leave in a value of each type
ValuesOf(type) ==
  CASE type = "NullString" ->
         {NullStringValue(FALSE, <<>>)} \cup {NullStringValue(TRUE, t) : t \in Texts}
    [] type = "NullInt64" ->
         {NullInt64Value(FALSE, 0)} \cup {NullInt64Value(TRUE, n) : n \in Ints}
    [] type = "RawBytes" -> {RawBytesValue(t) : t \in Texts}

\* a column with a scanned value
Cells == {[col |-> c, value |-> v] : c \in ColumnDefs, v \in UNION {ValuesOf(t) :
              t \in {"NullString", "NullInt64", "RawBytes"}}}
ScannedCells == {x \in Cells : x.value.type = ScanTypeOf(x.col.db, x.col.kind)}

\* the row (1, NULL, "Test Name 1") of a table (id INT, email VARCHAR, name VARCHAR)
ExampleRow ==
  << [col |-> [db |-> "INT", kind |-> "Int64"], value |-> NullInt64Value(TRUE, 1)],
     [col |-> [db |-> "VARCHAR", kind |-> "String"], value |-> NullStringValue(FALSE, <<>>)],
     [col |-> [db |-> "VARCHAR", kind |-> "String"], value |-> NullStringValue(TRUE, TestName1)] >>

RowInputs == SeqsUpTo(ScannedCells, MaxCols) \cup {ExampleRow}

nullType == <<"N", "U", "L", "L">>

\* fmt's %d of an int64
DigitChar(d) == <<"0", "1", "2", "3", "4", "5", "6", "7", "8", "9">>[d + 1]
RECURSIVE Digits(_)
Digits(n) == IF n < 10 THEN <<DigitChar(n)>> ELSE Digits(n \div 10) \o <<DigitChar(n % 10)>>
FormatInt(n) == IF n < 0 THEN <<"-">> \o Digits(-n) ELSE Digits(n)

\* a variant of the RawBytes case that tests nothing
RawBytesCaseNoNull(bytes) ==
  <<"_", "b", "i", "n", "a", "r", "y", " ", SQ>> \o sanitize(bytes) \o <<SQ>>

\* the *sql.RawBytes case of RowBuffer
RawBytesCase(bytes) ==
  IF Len(bytes) = 0 THEN nullType
  ELSE <<"_", "b", "i", "n", "a", "r", "y", " ", SQ>> \o sanitize(bytes) \o <<SQ>>

\* a variant of the NullString case that writes NULL for the empty string
NullStringCaseEmptyNull(valid, str) ==
  IF valid /\ str # <<>> THEN <<SQ>> \o sanitize(str) \o <<SQ>> ELSE nullType

\* the *sql.NullString case of RowBuffer
NullStringCase(valid, str) ==
  IF valid THEN <<SQ>> \o sanitize(str) \o <<SQ>> ELSE nullType

\* the switch of RowBuffer on one value
EncodeValue(v) ==
  CASE v.type = "NullString" -> NullStringCase(v.Valid, v.String)
    [] v.type = "NullInt64" -> IF v.Valid THEN FormatInt(v.Int64) ELSE nullType
    [] v.type = "RawBytes" -> RawBytesCase(v.String)

\* table.RowBuffer on table.values
RECURSIVE RowBufferFrom(_, _)
RowBufferFrom(values, key) ==
  IF key > Len(values) THEN <<>>
  ELSE (IF key # 1 THEN <<",">> ELSE <<>>) \o EncodeValue(values[key])
         \o RowBufferFrom(values, key + 1)
RowBuffer(values) == <<"(">> \o RowBufferFrom(values, 1) \o <<")">>

\* table.RowBuffer is called on the values of the row arg and returns
RowBufferCall ==
  /\ call = "RowBuffer"
  /\ cpc = "ready"
  /\ ret' = RowBuffer([i \in 1..Len(arg) |-> arg[i].value])
  /\ cpc' = "returned"
  /\ UNCHANGED <<dumpVars, Out, Connection, closes, call, arg>>

\* a variant of Close that closes the connection only
CloseCallsConnectionOnly(out, conn) == IF conn # "nil" THEN <<"Connection">> ELSE <<>>

\* the Close calls Data.Close makes: on Out when it is an io.Closer, then on
\* the Connection
CloseCalls(out, conn) ==
  (IF out = "closer" THEN <<"Out">> ELSE <<>>)
    \o (IF conn # "nil" THEN <<"Connection">> ELSE <<>>)

\* Data.Close: arg holds the receiver's fields at the call and the results the
\* two Close calls give; a nil Connection makes d.Connection.Close() panic, and
\* the deferred function clears both fields on every path
CloseCall ==
  /\ call = "Close"
  /\ cpc = "ready"
  /\ closes' = closes \o CloseCalls(Out, Connection)
  /\ ret' = IF Connection = "nil" THEN "panic"
            ELSE IF arg.connErr THEN "errConnClose" ELSE "nil"
  /\ Out' = "nil"
  /\ Connection' = "nil"
  /\ cpc' = "returned"
  /\ UNCHANGED <<dumpVars, call, arg>>

MaxCalls == 4

\* the encoded length of the rows the direct calls of table.Next read
CallRowLens == {5}

\* what one direct call of a method of the table left behind: fn is the
\* method, res what Next returned (for Init: whether it returned nil), err the
\* error Init returned, why the branch that made Next return false, the rest
\* the fields of the table and the number of row queries issued so far
CallRecord(fn, res, err, t, l) ==
  [fn |-> fn, res |-> res, err |-> err, why |-> IF res THEN "" ELSE t.end,
   Err |-> t.Err, rows |-> t.rows, types |-> t.types, values |-> t.values,
   cols |-> t.cols,
   selects |-> Cardinality({i \in 1..Len(l) : l[i].op = "SELECT *"})]

\* the fallthrough of table.Next on the cursor of t; a Scan into no target
\* fails
NextOnCursor(t, l) ==
  /\ log' = l
  /\ \/ /\ nread < MaxRows
        /\ nread' = nread + 1
        /\ \E blen \in CallRowLens,
              sc \in (IF t.values = 0 THEN {"err"} ELSE {"ok", "err"}) :
             LET t2 == tableNextRow(t, "row", sc, blen)
             IN /\ table' = t2
                /\ ret' = Append(ret, CallRecord("Next", sc = "ok", "", t2, l))
     \/ /\ nread' = nread
        /\ \E nx \in {"eof", "readerr"} :
             LET t2 == tableNextRow(t, nx, "ok", 0)
             IN /\ table' = t2
                /\ ret' = Append(ret, CallRecord("Next", FALSE, "", t2, l))

tableCallVars == <<MaxAllowedPacket, configured, server, LockTables, IgnoreTables, pc, tx,
                   sink, shown, tables, idx, locked, result, tmpl, g, valueOut,
                   failures, meta, Out, Connection, closes, call, cpc, arg>>

\* table.Next is called on the table
TableNextCall ==
  /\ call = "createTable"
  /\ cpc = "ready"
  /\ Len(ret) < MaxCalls
  /\ IF table.rows = "nil"
     THEN \E io \in InitOutcomes :
            LET t1 == tableInit(table, io)
                l1 == initLog(table, log, io)
            IN IF initErr(table, io) # "nil"
               THEN /\ table' = t1
                    /\ log' = l1
                    /\ nread' = nread
                    /\ ret' = Append(ret, CallRecord("Next", FALSE, "", t1, l1))
               ELSE NextOnCursor(t1, l1)
     ELSE NextOnCursor(table, log)
  /\ UNCHANGED tableCallVars

\* table.Init is called on the table: its error is returned, table.Err is
\* left alone
TableInitCall ==
  /\ call = "createTable"
  /\ cpc = "ready"
  /\ Len(ret) < MaxCalls
  /\ \E io \in InitOutcomes :
       LET t1 == [tableInit(table, io) EXCEPT !.Err = table.Err, !.end = table.end]
           l1 == initLog(table, log, io)
           err == initErr(table, io)
       IN /\ table' = t1
          /\ log' = l1
          /\ ret' = Append(ret, CallRecord("Init", err = "nil", err, t1, l1))
  /\ UNCHANGED <<tableCallVars, nread>>

\* data.createTable("a") on a Data whose transaction is open, as the tests
\* of the table make it; nothing else of a dump has happened
TableCreated ==
  /\ pc = "start"
  /\ tx = "open"
  /\ log = <<>>
  /\ sink = <<>>
  /\ shown = <<>>
  /\ tables = <<>>
  /\ idx = 0
  /\ locked = FALSE
  /\ result = "none"
  /\ table = NewTable("a")
  /\ tmpl = "none"
  /\ g = IdleG
  /\ valueOut = NewChan
  /\ nread = 0
  /\ failures = <<>>
  /\ meta = [DumpVersion |-> Version, ServerVersion |-> ""]

InitCalls ==
  /\ MaxAllowedPacket = 0
  /\ configured = 0
  /\ server = "test_version"
  /\ LockTables = FALSE
  /\ IgnoreTables = {}
  /\ cpc = "ready"
  /\ ret = <<>>
  /\ closes = <<>>
  /\ \/ /\ call = "sanitize"
        /\ arg \in SanitizeInputs
        /\ Out = "writer"
        /\ Connection = "db"
        /\ DumpNotStarted
     \/ /\ call = "RowBuffer"
        /\ arg \in RowInputs
        /\ Out = "writer"
        /\ Connection = "db"
        /\ DumpNotStarted
     \/ /\ call = "createTable"
        /\ arg = <<>>
        /\ Out = "writer"
        /\ Connection = "db"
        /\ TableCreated
     \/ /\ call = "Close"
        /\ DumpNotStarted
        /\ Out \in {"nil", "writer", "closer"}
        /\ Connection \in {"nil", "db"}
        /\ \E oe, ce \in BOOLEAN :
             arg = [Out |-> Out, Connection |-> Connection, outErr |-> oe, connErr |-> ce]

NextCalls ==
  \/ SanitizeCall
  \/ RowBufferCall
  \/ CloseCall
  \/ TableNextCall
  \/ TableInitCall

SpecCalls == InitCalls /\ [][NextCalls]_vars

(***************************************************************************)
(* Properties.                                                             *)
(***************************************************************************)
ReadQueries == {"SELECT version()", "SHOW TABLES", "SHOW CREATE TABLE", "SELECT *"}
Statements == ReadQueries \cup {"LOCK TABLES", "UNLOCK TABLES"}

Positions(op) == {i \in 1..Len(log) : log[i].op = op}

\* C1: the transaction is begun before any statement is issued; every read
\* query (SELECT version(), SHOW TABLES, SHOW CREATE TABLE, SELECT *) is
\* issued on the one transaction of the dump, while it is open; when the begin
\* fails nothing is issued and nothing is written.
C1_BeginBeforeQueries ==
  /\ Cardinality(Positions("BeginTx")) <= 1
  /\ \A i \in 1..Len(log) :
       log[i].op \in Statements => (i > 1 /\ log[1].op = "BeginTx" /\ log[1].ok)
  /\ \A i \in 1..Len(log) :
       log[i].op \in ReadQueries =>
         /\ log[i].via = "tx"
         /\ \A j \in Positions("Rollback") : i < j
  /\ result = "errBegin" => (Len(log) = 1 /\ sink = <<>>)
  /\ sink # <<>> => (log # <<>> /\ log[1].op = "BeginTx" /\ log[1].ok)

C1_Witness ==
  /\ pc = "done"
  /\ result = "nil"
  /\ Positions("SELECT *") # {}
  /\ Positions("SHOW CREATE TABLE") # {}

\* C2: a Dump whose begin succeeded has rolled the transaction back exactly
\* once when it has returned, whatever it returns, and not before; it never
\* commits.
C2_ExactlyOneRollback ==
  /\ Positions("Commit") = {}
  /\ (pc = "done" /\ result # "errBegin") =>
        (Cardinality(Positions("Rollback")) = 1 /\ tx = "done" /\ result # "none")
  /\ pc # "done" => Positions("Rollback") = {}
  /\ result = "errBegin" => Positions("Rollback") = {}

C2_Witness ==
  /\ pc = "done"
  /\ result = "errScan"
  /\ Cardinality(Positions("Rollback")) = 1

\* the INSERT statements sent so far that are still known: written to the
\* sink or waiting in the channel
SinkInserts == {sink[i] : i \in {j \in 1..Len(sink) : sink[j].part = "insert"}}
Emitted == SinkInserts \cup {valueOut.buf[i] : i \in 1..Len(valueOut.buf)}

\* the byte length of a statement of table name with these rows: the prefix,
\* the rows, the commas between them and the closing ";"
RECURSIVE SumLen(_)
SumLen(rows) == IF rows = <<>> THEN 0 ELSE Head(rows).len + SumLen(Tail(rows))
StatementLen(name, rows) == PrefixLen(name) + SumLen(rows) + (Len(rows) - 1) + 1

\* C3: every INSERT statement emitted by table.Stream, closing ";" included,
\* is at most MaxAllowedPacket bytes long, except the statements that hold a
\* single row whose own encoded length exceeds MaxAllowedPacket.
C3_StatementWithinBudget ==
  \A st \in Emitted :
    \/ st.len <= MaxAllowedPacket
    \/ (Len(st.rows) = 1 /\ st.rows[1].len > MaxAllowedPacket)

\* the rows of the current table that are in a statement or in the goroutine
PlacedIds ==
  {r.id : r \in UNION {{st.rows[i] : i \in 1..Len(st.rows)} :
                         st \in {e \in Emitted : e.sec = table.Name}}}
    \cup {g.insert[i].id : i \in 1..Len(g.insert)}
    \cup (IF g.pc = "send" THEN {g.b.id} ELSE {})

\* C4: a row whose encoded tuple alone is longer than the budget is the only
\* row of its statement, in the buffer and in every statement emitted, and the
\* statement holds it whole; it is not dropped: as long as no sink write has
\* failed, every such row read is in a statement or in the goroutine's hands.
C4_OversizedRowAlone ==
  /\ \A st \in Emitted :
       (\E i \in 1..Len(st.rows) : st.rows[i].len > MaxAllowedPacket) =>
          /\ Len(st.rows) = 1
          /\ st.len = StatementLen(st.sec, st.rows)
          /\ st.len = PrefixLen(st.sec) + st.rows[1].len + 1
  /\ (\E i \in 1..Len(g.insert) : g.insert[i].len > MaxAllowedPacket) =>
        Len(g.insert) = 1
  /\ result # "errSink" =>
        \A k \in 1..Len(table.fetched) :
          table.fetched[k] > MaxAllowedPacket => k \in PlacedIds

\* an oversized row written alone between two other statements of its table
C4_Witness ==
  \E i \in 1..Len(sink) :
    /\ i > 1 /\ i < Len(sink)
    /\ sink[i].part = "insert"
    /\ Len(sink[i].rows) = 1
    /\ sink[i].rows[1].len > MaxAllowedPacket
    /\ sink[i].rows[1].id = 2
    /\ sink[i - 1].part = "insert"
    /\ sink[i + 1].part = "insert"
    /\ sink[i + 1].sec = sink[i].sec

\* the statements of the current table in the order the goroutine built them:
\* those written, those in the channel, the open buffer and the pending row
TableStatements ==
  LET written == SelectSeq(sink, LAMBDA c : c.part = "insert" /\ c.sec = table.Name)
      sent == [i \in 1..Len(written) |-> written[i].rows]
                \o [i \in 1..Len(valueOut.buf) |-> valueOut.buf[i].rows]
  IN sent \o (IF g.insert # <<>> THEN <<g.insert>> ELSE <<>>)
          \o (IF g.pc = "send" THEN <<<<g.b>>>> ELSE <<>>)

\* the length of the buffer holding the first n rows of a statement
BufferLen(name, rows, n) ==
  IF n = 0 THEN 0 ELSE PrefixLen(name) + SumLen(SubSeq(rows, 1, n)) + (n - 1)

\* appending a row of blen bytes to a buffer of ilen bytes, with the comma
\* before it, makes the statement longer than the budget
WouldExceed(ilen, blen) == ilen + 1 + blen > MaxAllowedPacket

SectionParts(name) ==
  LET sec == SelectSeq(sink, LAMBDA c : c.sec = name)
  IN [i \in 1..Len(sec) |-> sec[i].part]

\* C6: every INSERT statement emitted holds at least one row; a table whose
\* cursor yields no row has no INSERT statement, and its section, once
\* complete, is the DDL and the lock / unlock bracket only.
C6_NoEmptyInsert ==
  /\ \A st \in Emitted : Len(st.rows) >= 1
  /\ (table.fetched = <<>> /\ table.Name # "") =>
        \A st \in Emitted : st.sec # table.Name
  /\ (table.fetched = <<>> /\ sink # <<>> /\ sink[Len(sink)].part = "post"
        /\ sink[Len(sink)].sec = table.Name) =>
        SectionParts(table.Name) = <<"pre", "ddl", "lock", "post">>

C6_Witness ==
  /\ table.end = "eof"
  /\ table.fetched = <<>>
  /\ sink # <<>>
  /\ sink[Len(sink)].part = "post"
  /\ sink[Len(sink)].sec = table.Name
  /\ SectionParts(table.Name) = <<"pre", "ddl", "lock", "post">>

\* C7: when a row read or column scan fails in table.Next while the buffer
\* holds a partial statement, that statement is neither sent nor written, and
\* the error is in table.Err and is what Dump returns for the table.
C7_PartialDiscardedOnError ==
  /\ (table.end \in {"readerr", "scanerr"} /\ g.insert # <<>>) =>
        /\ g.pc # "last"
        /\ \A st \in Emitted : ~(st.sec = table.Name /\ st.rows = g.insert)
  /\ table.end \in {"readerr", "scanerr"} => table.Err # "nil"
  /\ (table.end \in {"readerr", "scanerr"} /\ pc = "done") => result # "nil"

\* C8: when SHOW CREATE TABLE returns another table's name, Dump fails with
\* the mismatch error and the sink holds no byte of that table's section.
C8_NothingWrittenOnMismatch ==
  table.ddl = "mismatch" =>
    /\ result = "errMismatch"
    /\ \A i \in 1..Len(sink) : sink[i].sec # table.Name

\* a hard error of the table being rendered has happened
HardError == table.ddl \in {"err", "mismatch"} \/ table.Err # "nil"

\* the tables after the one the loop is at
LaterTables == {tables[j] : j \in (idx + 1)..Len(tables)}

\* C9: once the render of a table has hit a hard error (SHOW CREATE TABLE
\* failed or named another table, the row query or the metadata failed, the
\* table has no columns, a scan failed), no later table is rendered: no
\* statement names one and no section of one is written; the loop does not
\* advance, no footer is written, and when Dump has returned it has rolled
\* back and returned an error.
C9_HardErrorStopsDump ==
  HardError =>
    /\ pc \in {"render", "done"}
    /\ \A i \in 1..Len(log) : log[i].tbl \notin LaterTables
    /\ \A i \in 1..Len(sink) : sink[i].sec \notin LaterTables \cup {"footer"}
    /\ pc = "done" =>
         /\ result \notin {"nil", "none"}
         /\ Positions("Rollback") # {}
         /\ tx = "done"

C9_Witness ==
  /\ pc = "done"
  /\ result = "errNoColumns"
  /\ idx = 1
  /\ Len(tables) = 2
  /\ Positions("Rollback") # {}

\* C10: the segments of one table's section are contiguous in the sink: no
\* segment of another table, of the header or of the footer lies between two
\* segments of the same table.
C10_SectionsContiguous ==
  \A i, k \in 1..Len(sink) :
    (i < k /\ sink[i].sec = sink[k].sec /\ sink[i].sec \in Names) =>
       \A j \in i..k : sink[j].sec = sink[i].sec

\* two tables dumped, each with an INSERT statement
C10_Witness ==
  /\ result = "nil"
  /\ Len(tables) = 2
  /\ \A n \in {tables[1], tables[2]} :
       \E i \in 1..Len(sink) : sink[i].sec = n /\ sink[i].part = "insert"

\* the last part written of the section of table name, "" when none is written
LastPart(name) ==
  LET ps == SectionParts(name) IN IF ps = <<>> THEN "" ELSE ps[Len(ps)]

\* C11: in the sink the header comes first: it is written, whole, before any
\* segment of a table section or the footer, and only once; the footer is the
\* last thing written, and when it is written every table of the dump has its
\* whole section, closed by its UNLOCK TABLES lines, before it.
C11_HeaderFirstFooterLast ==
  /\ \A i \in 1..Len(sink) : (sink[i].part = "header") <=> (i = 1)
  /\ \A i \in 1..Len(sink) :
       sink[i].part = "footer" =>
         /\ i = Len(sink)
         /\ \A k \in 1..Len(tables) : LastPart(tables[k]) = "post"
         /\ \A j \in 2..(i - 1) : sink[j].sec \in {tables[k] : k \in 1..Len(tables)}

\* a dump of two tables that returned nil: header, two sections, footer
C11_Witness ==
  /\ pc = "done"
  /\ result = "nil"
  /\ Len(tables) = 2
  /\ sink[1].part = "header"
  /\ sink[Len(sink)].part = "footer"
  /\ LastPart(tables[1]) = "post"
  /\ LastPart(tables[2]) = "post"
  /\ \E i \in 1..Len(sink) : sink[i].part = "insert"

\* a variant of the template whose text after the range lacks UNLOCK TABLES
TmplLinesNoUnlock(part) ==
  CASE part = "pre" -> <<"DROP TABLE IF EXISTS">>
    [] part = "ddl" -> <<"CREATE TABLE">>
    [] part = "lock" -> <<"LOCK TABLES WRITE", "DISABLE KEYS">>
    [] part = "insert" -> <<"INSERT INTO">>
    [] part = "post" -> <<"ENABLE KEYS">>
    [] OTHER -> <<>>

\* the lines of tableTmpl each part of a section stands for, in template order
TmplLines(part) ==
  CASE part = "pre" -> <<"DROP TABLE IF EXISTS">>
    [] part = "ddl" -> <<"CREATE TABLE">>
    [] part = "lock" -> <<"LOCK TABLES WRITE", "DISABLE KEYS">>
    [] part = "insert" -> <<"INSERT INTO">>
    [] part = "post" -> <<"ENABLE KEYS", "UNLOCK TABLES">>
    [] OTHER -> <<>>

RECURSIVE Flatten(_)
Flatten(ss) == IF ss = <<>> THEN <<>> ELSE Head(ss) \o Flatten(Tail(ss))

\* the lines of the section of table name written so far, in order
SectionLines(name) ==
  LET ps == SectionParts(name)
  IN Flatten([i \in 1..Len(ps) |-> TmplLines(ps[i])])

\* the place of a line in a table section
LineRank(line) ==
  CASE line = "DROP TABLE IF EXISTS" -> 1
    [] line = "CREATE TABLE" -> 2
    [] line = "LOCK TABLES WRITE" -> 3
    [] line = "DISABLE KEYS" -> 4
    [] line = "INSERT INTO" -> 5
    [] line = "ENABLE KEYS" -> 6
    [] line = "UNLOCK TABLES" -> 7

\* C12: in every table section the CREATE TABLE text is written before the
\* LOCK TABLES ... WRITE and DISABLE KEYS lines, every INSERT statement after
\* DISABLE KEYS and before ENABLE KEYS, and UNLOCK TABLES last; every statement
\* the goroutine of Stream sends has been written when ENABLE KEYS is written
\* (the goroutine has ended and its channel is empty); and the SELECT of a
\* table's rows is issued after a successful SHOW CREATE TABLE of that table.
C12_SectionOrder ==
  /\ \A k \in 1..Len(tables) :
       LET ls == SectionLines(tables[k])
       IN \A i, j \in 1..Len(ls) :
            i < j => \/ LineRank(ls[i]) < LineRank(ls[j])
                     \/ (ls[i] = "INSERT INTO" /\ ls[j] = "INSERT INTO")
  /\ (sink # <<>> /\ sink[Len(sink)].part = "post"
        /\ sink[Len(sink)].sec = table.Name) =>
        (g.pc = "done" /\ valueOut.buf = <<>> /\ valueOut.closed)
  /\ \A i \in 1..Len(log) :
       log[i].op = "SELECT *" =>
         \E j \in 1..(i - 1) :
           log[j].op = "SHOW CREATE TABLE" /\ log[j].tbl = log[i].tbl /\ log[j].ok

\* a whole section with two INSERT statements between the brackets
C12_Witness ==
  \E k \in 1..Len(tables) :
    SectionLines(tables[k]) =
      <<"DROP TABLE IF EXISTS", "CREATE TABLE", "LOCK TABLES WRITE", "DISABLE KEYS",
        "INSERT INTO", "INSERT INTO", "ENABLE KEYS", "UNLOCK TABLES">>

RenderQueries == {"SHOW CREATE TABLE", "SELECT *"}

\* C13 as stated: whenever LockTables is set and Dump has gone past its lock
\* step, it has executed exactly one LOCK TABLES statement.
C13_LockWheneverSet ==
  (LockTables /\ pc \in {"loop", "render"}) =>
     Cardinality(Positions("LOCK TABLES")) = 1

\* C13, amended: when LockTables is set and at least one table survives the
\* enumeration, Dump executes exactly one LOCK TABLES statement; it names
\* every surviving table, in order, each with READ, and is issued after the
\* successful SHOW TABLES and before any SHOW CREATE TABLE or row query; when
\* it fails no table is rendered and Dump returns its error.  No LOCK TABLES
\* is executed otherwise.
C13_OneCombinedLock ==
  /\ (LockTables /\ tables # <<>> /\ pc # "lock") =>
        Cardinality(Positions("LOCK TABLES")) = 1
  /\ (~LockTables \/ tables = <<>>) => Positions("LOCK TABLES") = {}
  /\ \A i \in Positions("LOCK TABLES") :
       /\ log[i].tbls = [k \in 1..Len(tables) |-> [name |-> tables[k], mode |-> "READ"]]
       /\ \E j \in 1..(i - 1) : log[j].op = "SHOW TABLES" /\ log[j].ok
       /\ \A j \in 1..Len(log) : log[j].op \in RenderQueries => i < j
       /\ ~log[i].ok =>
            /\ pc = "done"
            /\ result = "errLock"
            /\ \A j \in 1..Len(log) : log[j].op \notin RenderQueries
            /\ \A j \in 1..Len(sink) : sink[j].part = "header"

\* two tables locked by one statement, then dumped
C13_Witness ==
  /\ pc = "done"
  /\ result = "nil"
  /\ LockTables
  /\ Len(tables) = 2
  /\ \E i \in Positions("LOCK TABLES") : Len(log[i].tbls) = 2 /\ log[i].ok
  /\ Cardinality(Positions("SELECT *")) = 2

\* the positions in the log of the LOCK TABLES statements that succeeded
LockedAt == {i \in Positions("LOCK TABLES") : log[i].ok}

\* C14: when the combined LOCK TABLES has succeeded, Dump has executed exactly
\* one UNLOCK TABLES when it has returned, after the lock and before the
\* rollback, whatever the outcome (all tables rendered, a hard error of a
\* table, a sink write failure, a footer failure); it is not executed while
\* Dump is still running, and not without a successful lock.
C14_UnlockOnEveryOutcome ==
  /\ (pc = "done" /\ LockedAt # {}) =>
        /\ Cardinality(Positions("UNLOCK TABLES")) = 1
        /\ \A u \in Positions("UNLOCK TABLES") :
             /\ \A i \in LockedAt : i < u
             /\ \E r \in Positions("Rollback") : u < r
  /\ Positions("UNLOCK TABLES") # {} => (pc = "done" /\ LockedAt # {})

\* Dump returned the error of a failed sink write in a table section, under
\* the lock, and unlocked
C14_Witness ==
  /\ pc = "done"
  /\ result = "errSink"
  /\ LockedAt # {}
  /\ Cardinality(Positions("UNLOCK TABLES")) = 1
  /\ \E i \in 1..Len(sink) : sink[i].part = "insert"

\* C15: when the deferred UNLOCK TABLES is the only failure of a dump, the
\* output written stays whole (header to footer) and the failure is reported
\* to the caller: Dump does not return nil.
C15_UnlockFailureReported ==
  (pc = "done" /\ failures = <<"errUnlock">>) =>
     /\ sink # <<>>
     /\ sink[Len(sink)].part = "footer"
     /\ result # "nil"

\* C16: for a table whose name is an entry of IgnoreTables, the sink holds no
\* segment of a section of it, no statement naming it is issued (no SHOW
\* CREATE TABLE, no SELECT) and the combined LOCK TABLES does not list it; it
\* is not in the list Dump renders.
C16_IgnoredTableUntouched ==
  \A n \in IgnoreTables :
    /\ \A i \in 1..Len(sink) : sink[i].sec # n
    /\ \A i \in 1..Len(log) :
         /\ log[i].tbl # n
         /\ \A k \in 1..Len(log[i].tbls) : log[i].tbls[k].name # n
    /\ \A k \in 1..Len(tables) : tables[k] # n
    /\ table.Name # n

\* SHOW TABLES returned a and the ignored b; a was locked and dumped
C16_Witness ==
  /\ pc = "done"
  /\ result = "nil"
  /\ LockTables
  /\ IgnoreTables = {"b"}
  /\ \E i \in Positions("SHOW TABLES") : "b" \in log[i].ret
  /\ tables = <<"a">>
  /\ LockedAt # {}
  /\ LastPart("a") = "post"

\* C17: the list getTables returns is the result of SHOW TABLES, in its order,
\* without the NULL names and without the names in IgnoreTables: nothing else
\* is removed, nothing is added, no name is repeated or moved.
C17_GetTablesFilter ==
  /\ pc = "lock" =>
        /\ tables = SelectSeq(shown, LAMBDA n : n # NullName /\ n \notin IgnoreTables)
        /\ \A k \in 1..Len(shown) :
             (shown[k] # NullName /\ shown[k] \notin IgnoreTables) <=>
                (\E j \in 1..Len(tables) : tables[j] = shown[k])
  /\ pc \in {"start", "version", "header", "tables"} => tables = <<>>
  /\ \A i \in Positions("SHOW TABLES") :
       log[i].ok => {tables[j] : j \in 1..Len(tables)} = log[i].ret \ IgnoreTables

\* SHOW TABLES returned a NULL name and then a: getTables returned a alone
C17_Witness ==
  /\ shown = <<NullName, "a">>
  /\ tables = <<"a">>
  /\ pc = "lock"

\* C18: every INSERT statement emitted for a table begins with INSERT INTO,
\* the table's name and the list of the table's columns, all of them, in the
\* table's order, before VALUES.
C18_ExplicitColumnList ==
  \A st \in Emitted :
    /\ st.prefix.into = st.sec
    /\ Len(st.prefix.columns) = NumColumns
    /\ \A k \in 1..Len(st.prefix.columns) : st.prefix.columns[k] = k

\* C19: when one or more failures happened in a run of Dump, what Dump returns
\* is the error of the failure that happened first.
C19_FirstFailureReturned ==
  (pc = "done" /\ failures # <<>>) => result = failures[1]

\* a write to the sink has failed
SinkFailed == \E k \in 1..Len(failures) : failures[k] = "errSink"

\* C20: when a write to the sink has failed (header, table section or
\* footer), Dump has returned, with a non-nil error; no later table is
\* rendered: no statement names one and the sink holds no section of one and
\* no footer after a failure before it; and from then on nothing more is
\* written to the sink and no statement but those of the table being read is
\* issued.
C20_SinkFailureAborts ==
  /\ [](SinkFailed =>
          /\ pc = "done"
          /\ result \notin {"nil", "none"}
          /\ \A i \in 1..Len(log) : log[i].tbl \notin LaterTables
          /\ \A i \in 1..Len(sink) : sink[i].sec \notin LaterTables)
  /\ [][SinkFailed =>
          /\ sink' = sink
          /\ pc' = pc /\ idx' = idx /\ result' = result
          /\ \A i \in (Len(log) + 1)..Len(log') : log'[i].tbl = table.Name]_vars

\* the write of a statement of the first of two tables failed: Dump returned
\* the error, the second table has no section
C20_Witness ==
  /\ SinkFailed
  /\ pc = "done"
  /\ Len(tables) = 2
  /\ idx = 1
  /\ sink # <<>>
  /\ sink[Len(sink)].part = "insert"
  /\ g.pc \notin {"idle", "done"}

\* C21: with a batching budget that is not positive (MaxAllowedPacket <= 0 as
\* configured), no table is rendered (no table query is issued, no section is
\* written) and Dump, when it has returned, has returned an error.
C21_NonPositiveBudgetRejected ==
  configured <= 0 =>
    /\ \A i \in 1..Len(log) : log[i].op \notin RenderQueries
    /\ \A i \in 1..Len(sink) : sink[i].part \in {"header", "footer"}
    /\ pc = "done" => result \notin {"nil", "none"}

\* C22: a budget of 0 at the start of Dump is replaced by the default,
\* 4194304 bytes, and any other configured value is kept as it is, from the
\* first statement of Dump on and for every table; the batcher works with that
\* value: under the default the rows of a table read so far are in one
\* statement.
C22_DefaultBudget ==
  /\ pc # "start" =>
       MaxAllowedPacket = (IF configured = 0 THEN 4194304 ELSE configured)
  /\ pc = "start" => MaxAllowedPacket = configured
  /\ configured = 0 => Cardinality({st \in Emitted : st.sec = table.Name}) <= 1
  /\ configured = 0 =>
       \A k \in 1..Len(tables) :
         Len(SelectSeq(SectionParts(tables[k]), LAMBDA q : q = "insert")) <= 1

\* an unset budget: two tables dumped, the three rows of one in one statement
C22_Witness ==
  /\ configured = 0
  /\ MaxAllowedPacket = 4194304
  /\ pc = "done"
  /\ result = "nil"
  /\ Len(tables) = 2
  /\ \E i \in 1..Len(sink) : sink[i].part = "insert" /\ Len(sink[i].rows) = 3

\* s is the beginning of t
IsPrefix(s, t) == Len(s) <= Len(t) /\ SubSeq(t, 1, Len(s)) = s

\* C23: Dump only appends to the sink: every step, the one in which Dump
\* fails included, leaves what the sink held in place, unchanged, and adds at
\* most one segment after it; so the header and the sections written before
\* a failure are still there when Dump has returned its error.
C23_SinkAppendOnly ==
  [][/\ IsPrefix(sink, sink')
     /\ Len(sink') <= Len(sink) + 1
     /\ pc = "done" => sink' = sink]_vars

\* Dump failed on the second table: the header and the whole section of the
\* first are in the sink
C23_Witness ==
  /\ pc = "done"
  /\ result = "errShowCreate"
  /\ Len(tables) = 2
  /\ idx = 2
  /\ sink[1].part = "header"
  /\ LastPart(tables[1]) = "post"
  /\ \E i \in 1..Len(sink) : sink[i].part = "insert" /\ sink[i].sec = tables[1]
  /\ LastPart(tables[2]) = "pre"

\* the header segments of the sink
Headers == {i \in 1..Len(sink) : sink[i].part = "header"}

\* C24: SELECT version() is issued at most once in a Dump, and once as soon
\* as Dump is past it; it is issued on the transaction, after the begin and
\* before SHOW TABLES and before any query of a table; the header in the sink
\* carries the version of the tool and the server version that query
\* returned (empty when it returned NULL), and is written after the query.
C24_VersionOnceInHeader ==
  /\ Cardinality(Positions("SELECT version()")) <= 1
  /\ (pc \notin {"start", "version"} /\ result # "errBegin") =>
        Cardinality(Positions("SELECT version()")) = 1
  /\ \A i \in Positions("SELECT version()") :
       /\ log[i].via = "tx"
       /\ i = 2 /\ log[1].op = "BeginTx" /\ log[1].ok
       /\ \A j \in 1..Len(log) :
            log[j].op \in RenderQueries \cup {"SHOW TABLES"} => i < j
       /\ \A r \in Positions("Rollback") : i < r
  /\ \A h \in Headers :
       /\ sink[h].meta.DumpVersion = "0.5.0"
       /\ \E i \in Positions("SELECT version()") :
            /\ log[i].ok
            /\ sink[h].meta.ServerVersion =
                 (IF log[i].ret = NullName THEN "" ELSE log[i].ret)

\* a whole dump whose header carries the version the server returned
C24_Witness ==
  /\ pc = "done"
  /\ result = "nil"
  /\ Headers = {1}
  /\ sink[1].meta.ServerVersion = "test_version"
  /\ sink[1].meta.DumpVersion = "0.5.0"
  /\ Positions("SHOW CREATE TABLE") # {}

\* the bytes sanitize escapes, and the string an escaped string stands for:
\* a backslash and the byte after it stand for one byte
Special == {NUL, SQ, DQ, BS, LF, CR, SUB, BSL, PCT}
Unescaped(c) ==
  CASE c = "0" -> NUL [] c = "b" -> BS [] c = "n" -> LF [] c = "r" -> CR
    [] c = "Z" -> SUB [] OTHER -> c
RECURSIVE Unescape(_)
Unescape(s) ==
  IF s = <<>> THEN <<>>
  ELSE IF Head(s) = BSL /\ Len(s) >= 2
       THEN <<Unescaped(s[2])>> \o Unescape(Tail(Tail(s)))
       ELSE <<Head(s)>> \o Unescape(Tail(s))

\* the positions of s that do not follow an escaping backslash
RECURSIVE Bare(_, _)
Bare(s, i) ==
  IF i > Len(s) THEN {}
  ELSE IF s[i] = BSL THEN {i} \cup Bare(s, i + 2) ELSE {i} \cup Bare(s, i + 1)

\* C27: sanitize maps every byte of its input once, in order: a byte the
\* replacer knows becomes a backslash and one character, any other byte stays;
\* so the result is as long as the input plus one per escaped byte, reading
\* it back (a backslash and its follower as one byte) gives the input, no
\* escaped byte is left bare in it, and O'Brien\ becomes O\'Brien\\.
C27_SanitizeOnePass ==
  (call = "sanitize" /\ cpc = "returned") =>
     /\ Len(ret) = Len(arg) + Cardinality({i \in 1..Len(arg) : arg[i] \in Special})
     /\ Unescape(ret) = arg
     /\ \A i \in Bare(ret, 1) : ret[i] \in Special => (ret[i] = BSL /\ i < Len(ret))
     /\ arg = OBrien => ret = <<"O", BSL, SQ, "B", "r", "i", "e", "n", BSL, BSL>>
     /\ arg = <<"O", "O">> => ret = arg

C27_Witness ==
  /\ call = "sanitize"
  /\ cpc = "returned"
  /\ arg = OBrien
  /\ ret = <<"O", BSL, SQ, "B", "r", "i", "e", "n", BSL, BSL>>

\* the fields of a string between separators
RECURSIVE SplitFrom(_, _, _)
SplitFrom(s, sep, cur) ==
  IF s = <<>> THEN <<cur>>
  ELSE IF Head(s) = sep THEN <<cur>> \o SplitFrom(Tail(s), sep, <<>>)
  ELSE SplitFrom(Tail(s), sep, Append(cur, Head(s)))

\* the fields of a rendered row: what lies between the brackets, cut at commas
Fields(row) ==
  IF Len(row) = 2 THEN <<>> ELSE SplitFrom(SubSeq(row, 2, Len(row) - 1), ",", <<>>)

\* the number a string of decimal digits, with an optional sign, stands for
DigitOf(c) == CHOOSE d \in 0..9 : DigitChar(d) = c
RECURSIVE NatOf(_)
NatOf(ds) == IF ds = <<>> THEN 0 ELSE 10 * NatOf(SubSeq(ds, 1, Len(ds) - 1)) + DigitOf(ds[Len(ds)])
IsDecimal(f) ==
  LET ds == IF f # <<>> /\ f[1] = "-" THEN Tail(f) ELSE f
  IN /\ ds # <<>>
     /\ \A i \in 1..Len(ds) : \E d \in 0..9 : DigitChar(d) = ds[i]
     /\ (Len(ds) > 1 => ds[1] # "0")
IntOf(f) == IF f[1] = "-" THEN 0 - NatOf(Tail(f)) ELSE NatOf(f)

\* f is text in single quotes that reads back as str
IsQuoted(f, str) ==
  /\ Len(f) >= 2
  /\ f[1] = SQ /\ f[Len(f)] = SQ
  /\ Unescape(SubSeq(f, 2, Len(f) - 1)) = str
  /\ Len(f) = 2 + Len(str) + Cardinality({i \in 1..Len(str) : str[i] \in Special})

\* C25: table.RowBuffer renders a row as "(", its values separated by ",",
\* and ")": a NULL value as the bare word NULL, a valid integer as its
\* decimal digits without quotes, a valid text as its sanitized text in single
\* quotes, the empty text as '' and not as NULL; (1, NULL, "Test Name 1")
\* renders as (1,NULL,'Test Name 1').
C25_RowBufferEncoding ==
  (call = "RowBuffer" /\ cpc = "returned") =>
     /\ Len(ret) >= 2 /\ ret[1] = "(" /\ ret[Len(ret)] = ")"
     /\ Len(Fields(ret)) = Len(arg)
     /\ \A i \in 1..Len(arg) :
          LET v == arg[i].value
              f == Fields(ret)[i]
          IN /\ (v.type \in {"NullString", "NullInt64"} /\ ~v.Valid) => f = <<"N", "U", "L", "L">>
             /\ (v.type = "NullInt64" /\ v.Valid) => (IsDecimal(f) /\ IntOf(f) = v.Int64)
             /\ (v.type = "NullString" /\ v.Valid) => IsQuoted(f, v.String)
             /\ (v.type = "NullString" /\ v.Valid /\ v.String = <<>>) => f = <<SQ, SQ>>
     /\ arg = ExampleRow =>
          ret = <<"(", "1", ",", "N", "U", "L", "L", ",", SQ>> \o TestName1 \o <<SQ, ")">>

C25_Witness ==
  /\ call = "RowBuffer"
  /\ cpc = "returned"
  /\ arg = ExampleRow
  /\ ret = <<"(", "1", ",", "N", "U", "L", "L", ",", SQ>> \o TestName1 \o <<SQ, ")">>

\* C26: the value of a BLOB column is rendered as the bare word NULL when it
\* has no byte, and as _binary followed by its sanitized bytes in single
\* quotes when it has some.
C26_BlobEncoding ==
  (call = "RowBuffer" /\ cpc = "returned") =>
     \A i \in 1..Len(arg) :
       arg[i].col.db = "BLOB" =>
         LET bytes == arg[i].value.String
             f == Fields(ret)[i]
         IN /\ arg[i].value.type = "RawBytes"
            /\ bytes = <<>> => f = <<"N", "U", "L", "L">>
            /\ bytes # <<>> =>
                 /\ Len(f) > 8
                 /\ SubSeq(f, 1, 8) = <<"_", "b", "i", "n", "a", "r", "y", " ">>
                 /\ IsQuoted(SubSeq(f, 9, Len(f)), bytes)

\* a row of an empty and a non-empty BLOB: (NULL,_binary '\'')
C26_Witness ==
  /\ call = "RowBuffer"
  /\ cpc = "returned"
  /\ Len(arg) = 2
  /\ arg[1].col.db = "BLOB" /\ arg[1].value.String = <<>>
  /\ arg[2].col.db = "BLOB" /\ arg[2].value.String = <<SQ>>
  /\ ret = <<"(", "N", "U", "L", "L", ",", "_", "b", "i", "n", "a", "r", "y", " ",
             SQ, BSL, SQ, SQ, ")">>

\* C28: Data.Close, called on a Data with a Connection, closes Out when Out
\* has a Close method and not otherwise, then closes the Connection, each
\* once, and returns what the Connection's Close returned, whatever the Close
\* of Out returned; after the call Out and Connection are both nil, whatever
\* the two calls returned.
C28_CloseClearsBoth ==
  (call = "Close" /\ cpc = "returned") =>
     /\ Out = "nil"
     /\ Connection = "nil"
     /\ arg.Connection = "db" =>
          /\ closes = (IF arg.Out = "closer" THEN <<"Out", "Connection">>
                       ELSE <<"Connection">>)
          /\ ret = (IF arg.connErr THEN "errConnClose" ELSE "nil")

\* both Close calls failed: the Connection's error is returned, both fields
\* are nil
C28_Witness ==
  /\ call = "Close"
  /\ cpc = "returned"
  /\ arg.Out = "closer"
  /\ arg.Connection = "db"
  /\ arg.outErr /\ arg.connErr
  /\ closes = <<"Out", "Connection">>
  /\ ret = "errConnClose"
  /\ Out = "nil" /\ Connection = "nil"

\* the rows table.Stream has placed so far, in the order it placed them: in
\* the statements written, in the statement waiting in the channel, in the
\* open buffer, and the row waiting for the buffer to be sent
StreamRows ==
  LET written == SelectSeq(sink, LAMBDA c : c.part = "insert" /\ c.sec = table.Name)
  IN Flatten([i \in 1..Len(written) |-> written[i].rows])
       \o Flatten([i \in 1..Len(valueOut.buf) |-> valueOut.buf[i].rows])
       \o (IF g.pc # "done" THEN g.insert ELSE <<>>)
       \o (IF g.pc = "send" THEN <<g.b>> ELSE <<>>)

\* the rows the cursor of the current table has yielded, in cursor order
CursorRows == [i \in 1..Len(table.fetched) |-> [id |-> i, len |-> table.fetched[i]]]

\* C29: as long as no write to the sink has failed, the rows of the INSERT
\* statements of the table, taken in the order the statements are emitted,
\* followed by the rows still in the goroutine's hands, are the rows the
\* cursor has yielded, in cursor order, each once; so when the cursor is
\* exhausted and the goroutine has ended, the statements hold exactly the
\* rows of the cursor, for every budget.
C29_RowsPreserved ==
  ~SinkFailed => StreamRows = CursorRows

\* three rows of a table written in two statements under a budget of 32
C29_Witness ==
  /\ configured = 32
  /\ table.end = "eof"
  /\ g.pc = "done"
  /\ Len(table.fetched) = 3
  /\ valueOut.buf = <<>>
  /\ Len(SelectSeq(sink, LAMBDA c : c.part = "insert" /\ c.sec = table.Name)) = 2
  /\ StreamRows = CursorRows
  /\ sink[Len(sink)].part = "post"

\* the goroutine of Stream has been started and has not ended
GoroutineRunning == g.pc \notin {"idle", "done"}

\* C30: the goroutine started by table.Stream always comes to close its
\* channel and end: in a state where no step of the program is possible any
\* more, no goroutine is left running, and an ended goroutine has closed its
\* channel.
C30_GoroutineTerminates ==
  /\ (~ENABLED Next) => ~GoroutineRunning
  /\ g.pc = "done" => valueOut.closed

\* the direct calls of table.Next that returned false because the cursor was
\* exhausted, no error having been recorded
ExhaustedAt ==
  {i \in 1..Len(ret) : ret[i].fn = "Next" /\ ~ret[i].res /\ ret[i].why = "eof"
                        /\ ret[i].Err = "nil"}

\* C31: once table.Next has returned false because the cursor was exhausted
\* without error, every later call of Next returns false, issues no new
\* SELECT and leaves table.Err nil.
C31_NextAfterExhaustion ==
  call = "createTable" =>
    \A i \in ExhaustedAt : \A j \in (i + 1)..Len(ret) :
      ret[j].fn = "Next" =>
        /\ ~ret[j].res
        /\ ret[j].selects = ret[j - 1].selects
        /\ ret[j].Err = "nil"

\* the row queries issued for the table being rendered
TableSelects == {i \in Positions("SELECT *") : log[i].tbl = table.Name}

\* the errors table.Init can return on its first call
InitErrors == InitOutcomes \ {"ok"}

\* C32: creating the table object issues no query: until the template reaches
\* its range over Stream no row query names the table and the table has no
\* cursor and no column plan; the query and the plan come with the first call
\* of Next, and when the query or the metadata fetch fails, that failure is in
\* table.Err, no row is read and, when Dump has returned, it is what Dump
\* returned.
C32_LazyInit ==
  /\ (pc = "render" /\ tmpl \in {"ddl", "lock"}) =>
        /\ TableSelects = {}
        /\ table.rows = "nil" /\ table.types = 0 /\ table.opened = 0
  /\ table.opened > 0 => TableSelects # {}
  /\ table.end = "init" =>
        /\ table.Err \in InitErrors
        /\ Cardinality(TableSelects) = 1
        /\ \A i \in TableSelects : log[i].ok <=> table.Err # "errSelect"
        /\ table.fetched = <<>>
        /\ table.types = 0
  /\ (pc = "done" /\ table.end = "init") => result = table.Err

\* the errors Dump returns for a failed query, a failed table or a failed lock
QueryErrors ==
  {"errVersion", "errShowTables", "errLock", "errShowCreate", "errMismatch",
   "errScan"} \cup InitErrors

\* the sink holds the footer
FooterWritten == \E i \in 1..Len(sink) : sink[i].part = "footer"

\* C33: the footer is written only at the end of a dump in which every
\* surviving table has its whole section in the sink and no table reported an
\* error: Dump then returns nil.  When Dump returns the error of a failed
\* query, table or lock, the sink holds no footer.
C33_FooterOnlyOnSuccess ==
  /\ FooterWritten =>
        /\ pc = "done"
        /\ result = "nil"
        /\ idx = Len(tables) + 1
        /\ \A k \in 1..Len(tables) :
             /\ LastPart(tables[k]) = "post"
             /\ Len(SectionParts(tables[k])) >= 4
        /\ table.Err = "nil"
        /\ \A k \in 1..Len(failures) : failures[k] \notin QueryErrors
  /\ (pc = "done" /\ result \in QueryErrors) => ~FooterWritten

\* Dump returned the scan error of the second of two tables: the first has its
\* whole section, the second its closing lines, and there is no footer
C33_Witness ==
  /\ pc = "done"
  /\ result = "errScan"
  /\ Len(tables) = 2
  /\ idx = 2
  /\ LastPart(tables[1]) = "post"
  /\ LastPart(tables[2]) = "post"
  /\ ~FooterWritten

\* in the lines ls of a section, every LOCK TABLES ... WRITE line is followed
\* by an UNLOCK TABLES line, with nothing but the key lines and the INSERT
\* statements between them
LockLinesClosed(ls) ==
  \A i \in 1..Len(ls) :
    ls[i] = "LOCK TABLES WRITE" =>
      \E j \in (i + 1)..Len(ls) :
        /\ ls[j] = "UNLOCK TABLES"
        /\ \A m \in (i + 1)..(j - 1) : ls[m] \in {"DISABLE KEYS", "INSERT INTO", "ENABLE KEYS"}

TableIndex(name) == CHOOSE k \in 1..Len(tables) : tables[k] = name

\* the tables of the segments of the table sections in the sink, in order
SinkTables ==
  LET segs == SelectSeq(sink, LAMBDA c : c.part \notin {"header", "footer"})
  IN [i \in 1..Len(segs) |-> segs[i].sec]

\* the tables of the statements of the log that name one table, in order
LogTables ==
  LET evs == SelectSeq(log, LAMBDA e : e.tbl # "")
  IN [i \in 1..Len(evs) |-> evs[i].tbl]

\* the names ns are surviving tables, in the order of the list and none after
\* the table the loop of Dump is at
InTableOrder(ns) ==
  /\ \A i \in 1..Len(ns) : \E k \in 1..Len(tables) : tables[k] = ns[i]
  /\ \A i \in 1..(Len(ns) - 1) : TableIndex(ns[i]) <= TableIndex(ns[i + 1])
  /\ ns # <<>> => TableIndex(ns[Len(ns)]) <= idx

\* C35: the list of surviving tables is the result of SHOW TABLES in its order
\* and does not change afterwards; the table sections are in the sink in the
\* order of that list, and so are the statements that name a table; one table
\* is rendered at a time: a statement or a segment of a table is issued or
\* written only while the loop of Dump is at that table, and then the section
\* of every table before it is complete, closed by its last lines.
C35_OneTableAtATimeInOrder ==
  /\ [](/\ pc = "lock" =>
             tables = SelectSeq(shown, LAMBDA n : n # NullName /\ n \notin IgnoreTables)
        /\ InTableOrder(SinkTables)
        /\ InTableOrder(LogTables)
        /\ \A k \in 1..Len(tables) : k < idx => LastPart(tables[k]) = "post")
  /\ [][/\ pc # "tables" => tables' = tables
        /\ \A i \in (Len(log) + 1)..Len(log') :
             log'[i].tbl # "" =>
               /\ idx \in 1..Len(tables)
               /\ log'[i].tbl = tables[idx]
               /\ \A k \in 1..(idx - 1) : LastPart(tables[k]) = "post"
        /\ \A i \in (Len(sink) + 1)..Len(sink') :
             sink'[i].part \notin {"header", "footer"} =>
               /\ idx \in 1..Len(tables)
               /\ sink'[i].sec = tables[idx]
               /\ \A k \in 1..(idx - 1) : LastPart(tables[k]) = "post"]_vars

\* the second of two tables is being read: its row query has been issued, the
\* section of the first is complete and comes first
C35_Witness ==
  /\ tables = <<"b", "a">>
  /\ idx = 2
  /\ pc = "render"
  /\ \E i \in Positions("SELECT *") : log[i].tbl = "a"
  /\ \E i \in Positions("SELECT *") : log[i].tbl = "b"
  /\ LastPart("b") = "post"
  /\ sink[2].sec = "b"
  /\ LastPart("a") = "insert"

\* the table after the direct calls made so far: the fields each call left
\* behind, and the table as createTable made it before the first
PlanAfter(j) ==
  IF j = 0 THEN [types |-> 0, values |-> 0, selects |-> 0]
  ELSE [types |-> ret[j].types, values |-> ret[j].values, selects |-> ret[j].selects]

\* C36: once table.Init has succeeded the column plan and the scan targets
\* have the same length, that of the cursor's columns, and no later call of
\* Next or Init changes either; an Init called after that is rejected with
\* the error "can't init twice", issues no query and leaves both as they are.
C36_PlanFixedAfterInit ==
  call = "createTable" =>
    /\ table.types # 0 =>
         (table.types = table.values /\ table.types = table.cols /\ table.cols > 0)
    /\ \A j \in 1..Len(ret) :
         /\ (ret[j].fn = "Init" /\ ret[j].res) =>
              (ret[j].types = ret[j].cols /\ ret[j].values = ret[j].cols /\ ret[j].cols > 0)
         /\ PlanAfter(j - 1).types # 0 =>
              /\ ret[j].types = PlanAfter(j - 1).types
              /\ ret[j].values = PlanAfter(j - 1).values
              /\ ret[j].fn = "Init" =>
                   /\ ~ret[j].res
                   /\ ret[j].err = "errInitTwice"
                   /\ ret[j].selects = PlanAfter(j - 1).selects
    /\ Len(ret) > 0 =>
         (table.types = ret[Len(ret)].types /\ table.values = ret[Len(ret)].values)

\* Next read a row, then Init was called again and was rejected
C36_Witness ==
  /\ call = "createTable"
  /\ Len(ret) >= 2
  /\ ret[1].fn = "Next" /\ ret[1].res
  /\ ret[2].fn = "Init" /\ ret[2].err = "errInitTwice"
  /\ table.types = NumColumns
  /\ table.values = NumColumns

\* the template of the current table has run to its end: writeTable returned
RenderReturned == pc \in {"loop", "done"} /\ tmpl = "none" /\ table.Name # ""

\* C37: when the render of a table has returned, every cursor table.Init
\* opened for it has been closed, whatever ended the rows: the end of the
\* cursor, a scan error, a table without columns.
C37_CursorClosedOnReturn ==
  RenderReturned => table.closed = table.opened

\* the positions in the log of the statements that read inside the snapshot
ReadAt == {i \in 1..Len(log) : log[i].op \in ReadQueries}

\* the positions in the log of the lock statements of Dump
LockStatementsAt == Positions("LOCK TABLES") \cup Positions("UNLOCK TABLES")

\* C38: with LockTables set, LOCK TABLES ... READ and the UNLOCK TABLES of the
\* teardown are executed on the session of the transaction the tables are
\* read in, and UNLOCK TABLES is executed before that transaction is rolled
\* back.
C38_LockOnSnapshotSession ==
  LockTables =>
    /\ \A i \in LockStatementsAt : \A j \in ReadAt : log[i].via = log[j].via
    /\ \A u \in Positions("UNLOCK TABLES") : \A r \in Positions("Rollback") : u < r

\* SHOW TABLES succeeded and no table survived the filter
NoTableSurvived ==
  /\ tables = <<>>
  /\ \E i \in Positions("SHOW TABLES") : log[i].ok

\* C39: when no table survives enumeration and filtering, Dump issues no LOCK
\* TABLES and no UNLOCK TABLES, whatever LockTables is, and no query of a
\* table; unless the write of the footer fails, the sink holds the header and
\* right after it the footer, and Dump has rolled the transaction back once
\* and returned nil.
C39_EmptyDump ==
  NoTableSurvived =>
    /\ LockStatementsAt = {}
    /\ ~locked
    /\ \A i \in 1..Len(log) : log[i].op \notin RenderQueries
    /\ pc \in {"lock", "loop", "done"}
    /\ (pc = "done" /\ ~SinkFailed) =>
         /\ Len(sink) = 2
         /\ sink[1] = Header(meta)
         /\ sink[2].part = "footer"
         /\ Cardinality(Positions("Rollback")) = 1
         /\ log[Len(log)].op = "Rollback"
         /\ tx = "done"
         /\ result = "nil"
    /\ pc # "done" => (Len(sink) = 1 /\ sink[1].part = "header")

\* LockTables is set and the only table SHOW TABLES returned is ignored: the
\* dump is the header and the footer
C39_Witness ==
  /\ NoTableSurvived
  /\ LockTables
  /\ \E i \in Positions("SHOW TABLES") : log[i].ret = {"b"}
  /\ pc = "done"
  /\ result = "nil"
  /\ Len(sink) = 2
  /\ sink[2].part = "footer"

====
